---- MODULE Spec2Model ----
(***************************************************************************)
(* The tracking engine of the WebcamDetector component                     *)
(* (src/components/Camera.tsx): the camera set-up, the detection interval  *)
(* timer, the asynchronous detector calls and the functional update of     *)
(* the tracked-object list.  Every event handler and every continuation    *)
(* after an await is one action; the component stays mounted.  The speed   *)
(* and the action of a record are computed by calculateSpeed and           *)
(* determineAction (src/utils/speedCalculation.ts).                        *)
(***************************************************************************)
EXTENDS Integers, Sequences, FiniteSets

(* ------------------------------------------------------------------ *)
(* Program constants                                                    *)
(* ------------------------------------------------------------------ *)
DETECTION_INTERVAL == 33
POSITION_HISTORY == 15
OBJECT_TIMEOUT == 1000
\* the association gate of prevObjects.find, per axis
GATE == 50

(* ------------------------------------------------------------------ *)
(* Bounds of the model                                                  *)
(* ------------------------------------------------------------------ *)
\* timer callbacks in a behaviour of Spec
MaxTicks == 2
\* timer callbacks in a behaviour of SpecLong
MaxTicksLong == 18
\* Math.random() draws from 0..MaxRandom
MaxRandom == 1
\* setupVideo calls awaiting getUserMedia at once
MaxSetups == 1
\* interval timers created in a behaviour
MaxTimers == 2
\* detector calls in flight at once
MaxInFlight == 2
\* samples in a history handed to calculateSpeed and determineAction
MaxSamples == 5

(* ------------------------------------------------------------------ *)
(* JavaScript numbers: integers and NaN                                 *)
(* ------------------------------------------------------------------ *)
\* NaN (also what arithmetic makes of a missing, undefined, bbox field):
\* a value outside every coordinate range, absorbing in arithmetic and
\* false in every comparison
NaN == -1000000

Add(a, b) == IF a = NaN \/ b = NaN THEN NaN ELSE a + b

Sub(a, b) == IF a = NaN \/ b = NaN THEN NaN ELSE a - b

\* w / 2; the boxes of the model have even widths and heights
Half(a) == IF a = NaN THEN NaN ELSE a \div 2

\* Math.abs(a) < b
AbsLess(a, b) == a # NaN /\ b # NaN /\ (IF a < 0 THEN -a ELSE a) < b

\* a < b
Less(a, b) == a # NaN /\ b # NaN /\ a < b

\* Math.abs(a - b)
AbsSub(a, b) == IF a = NaN \/ b = NaN THEN NaN ELSE IF a < b THEN b - a ELSE a - b

(* ------------------------------------------------------------------ *)
(* Speed and action (src/utils/speedCalculation.ts)                     *)
(* ------------------------------------------------------------------ *)
\* PIXEL_TO_METER = 0.015, in thousandths
PIXEL_TO_METER_MILLI == 15
\* MS_TO_KMH = 3.6, in tenths
MS_TO_KMH_TENTHS == 36
MIN_MOVEMENT_THRESHOLD == 2
MAX_SPEED_THRESHOLD == 30
SPEED_SMOOTHING_WINDOW == 3

\* Fractions are kept in fixed point, rounded down: a distance in 1/100 px,
\* a speed in 1/1000 km/h.  The two threshold tests are exact.
RECURSIVE SqrtBetween(_, _, _)
SqrtBetween(n, lo, hi) ==
    IF lo = hi THEN lo
    ELSE LET mid == (lo + hi + 1) \div 2
         IN  IF mid * mid <= n THEN SqrtBetween(n, mid, hi)
             ELSE SqrtBetween(n, lo, mid - 1)

\* the largest r with r * r <= n, for 0 <= n < 2^31
ISqrt(n) == SqrtBetween(n, 0, 46340)

\* dx * dx + dy * dy
DistanceSquared(prev, curr) ==
    LET dx == Sub(curr.x, prev.x)
        dy == Sub(curr.y, prev.y)
    IN  IF dx = NaN \/ dy = NaN THEN NaN ELSE dx * dx + dy * dy

\* curr.timestamp - prev.timestamp, in ms
TimeDiffMs(prev, curr) == curr.timestamp - prev.timestamp

\* Math.sqrt(d2) in 1/100 px; above 463 px, where d2 * 10000 would pass
\* 2^31, to the whole pixel
DistanceCenti(d2) ==
    IF d2 <= 214748 THEN ISqrt(d2 * 10000) ELSE ISqrt(d2) * 100

\* (distance * PIXEL_TO_METER / timeDiff) * MS_TO_KMH in 1/1000 km/h, which
\* is distance * 100 * 15 * 36 / dtMs; negative for a negative dtMs
SpeedMilli(d2, dtMs) ==
    LET scaled == DistanceCenti(d2) * PIXEL_TO_METER_MILLI * MS_TO_KMH_TENTHS
    IN  IF dtMs > 0 THEN scaled \div dtMs ELSE 0 - (scaled \div (0 - dtMs))

\* speed < MAX_SPEED_THRESHOLD.  For dtMs > 0 it is
\* 54 * sqrt(d2) < 30 * dtMs, squared: 2916 * d2 < (30 * dtMs)^2, with the
\* division on the right so that the product stays under 2^31.  A negative
\* dtMs makes the speed negative; dtMs = 0 makes it Infinity or NaN.
SpeedBelowMax(d2, dtMs) ==
    LET perPx == (PIXEL_TO_METER_MILLI * MS_TO_KMH_TENTHS) \div 10
        limit == MAX_SPEED_THRESHOLD * dtMs
    IN  IF dtMs > 0 THEN d2 <= (limit * limit - 1) \div (perPx * perPx)
        ELSE dtMs < 0

\* distance > MIN_MOVEMENT_THRESHOLD, squared
MovedEnough(d2) == Less(MIN_MOVEMENT_THRESHOLD * MIN_MOVEMENT_THRESHOLD, d2)
\* a test that takes out-of-order timestamps
PairSurvivesAnyOrder(prev, curr) ==
    LET d2 == DistanceSquared(prev, curr)
    IN  MovedEnough(d2) /\ SpeedBelowMax(d2, TimeDiffMs(prev, curr))

\* a test without the cap on the speed
PairSurvivesAnySpeed(prev, curr) ==
    MovedEnough(DistanceSquared(prev, curr)) /\ TimeDiffMs(prev, curr) > 0

\* distance > MIN_MOVEMENT_THRESHOLD && timeDiff > 0, then
\* speed < MAX_SPEED_THRESHOLD: the pair's speed is pushed
PairSurvives(prev, curr) ==
    LET d2 == DistanceSquared(prev, curr)
    IN  /\ MovedEnough(d2)
        /\ TimeDiffMs(prev, curr) > 0
        /\ SpeedBelowMax(d2, TimeDiffMs(prev, curr))

\* the array speeds after the loop, in 1/1000 km/h
InstantSpeeds(positions) ==
    LET kept == SelectSeq([i \in 1..(Len(positions) - 1) |-> i],
                          LAMBDA i : PairSurvives(positions[i], positions[i + 1]))
    IN  [k \in 1..Len(kept) |->
            SpeedMilli(DistanceSquared(positions[kept[k]], positions[kept[k] + 1]),
                       TimeDiffMs(positions[kept[k]], positions[kept[k] + 1]))]

\* a window over the oldest speeds
RecentSpeedsOldest(speeds) ==
    SubSeq(speeds, 1,
           IF Len(speeds) > SPEED_SMOOTHING_WINDOW THEN SPEED_SMOOTHING_WINDOW
           ELSE Len(speeds))

\* speeds.slice(-SPEED_SMOOTHING_WINDOW)
RecentSpeeds(speeds) ==
    SubSeq(speeds,
           IF Len(speeds) > SPEED_SMOOTHING_WINDOW
           THEN Len(speeds) - SPEED_SMOOTHING_WINDOW + 1 ELSE 1,
           Len(speeds))

\* reduce((a, b) => a + b, 0)
RECURSIVE SumSeq(_)
SumSeq(seq) == IF seq = <<>> THEN 0 ELSE Head(seq) + SumSeq(Tail(seq))

\* Math.round(sum / n), for a sum in 1/1000 km/h: the floor of the mean
\* plus one half
RoundedMean(sum, n) == (2 * sum + 1000 * n) \div (2000 * n)

\* calculateSpeed(positions), in km/h
CalculateSpeed(positions) ==
    IF Len(positions) < 2 THEN 0
    ELSE LET speeds == InstantSpeeds(positions)
         IN  IF Len(speeds) = 0 THEN 0
             ELSE RoundedMean(SumSeq(RecentSpeeds(speeds)), Len(RecentSpeeds(speeds)))

\* positions.slice(-3)
RecentPositions(positions) ==
    SubSeq(positions, IF Len(positions) > 3 THEN Len(positions) - 2 ELSE 1,
           Len(positions))

\* the sum of Math.abs(curr[axis] - prev[axis]) over the pairs of positions
RECURSIVE Movement(_, _)
Movement(positions, axis) ==
    IF Len(positions) < 2 THEN 0
    ELSE Add(AbsSub(positions[2][axis], positions[1][axis]),
             Movement(Tail(positions), axis))

\* the decision table over the two movements and the speed, the speed in
\* 1/1000 km/h
ActionOf(verticalMovement, horizontalMovement, speedMilli) ==
    IF speedMilli < 1000
    THEN IF Less(verticalMovement, MIN_MOVEMENT_THRESHOLD * 2) THEN "sitting"
         ELSE "standing"
    ELSE IF speedMilli < 3000
    THEN IF Less(horizontalMovement, verticalMovement) THEN "standing"
         ELSE "walking slowly"
    ELSE IF speedMilli < 8000 THEN "walking"
    ELSE IF speedMilli < 15000 THEN "walking fast"
    ELSE "running"

\* a version that sums the movement over the whole history
DetermineActionWholeHistory(positions, speedMilli) ==
    IF Len(positions) < 2 THEN "stationary"
    ELSE ActionOf(Movement(positions, "y"), Movement(positions, "x"), speedMilli)

\* a version that wants three samples before it names an action
DetermineActionThreeSamples(positions, speedMilli) ==
    IF Len(positions) < 3 THEN "stationary"
    ELSE ActionOf(Movement(RecentPositions(positions), "y"),
                  Movement(RecentPositions(positions), "x"), speedMilli)

\* determineAction(positions, speed), the speed in 1/1000 km/h
DetermineAction(positions, speedMilli) ==
    IF Len(positions) < 2 THEN "stationary"
    ELSE ActionOf(Movement(RecentPositions(positions), "y"),
                  Movement(RecentPositions(positions), "x"), speedMilli)

(* ------------------------------------------------------------------ *)
(* The updater of setTrackedObjects                                     *)
(* ------------------------------------------------------------------ *)
\* x + width / 2
CenterX(bbox) == Add(bbox[1], Half(bbox[3]))

\* y + height / 2
CenterY(bbox) == Add(bbox[2], Half(bbox[4]))

\* a gate that takes a distance of exactly GATE as well
SameObjectInclusive(obj, pred) ==
    /\ obj.class = pred.class
    /\ AbsLess(Sub(CenterX(obj.bbox), CenterX(pred.bbox)), GATE + 1)
    /\ AbsLess(Sub(CenterY(obj.bbox), CenterY(pred.bbox)), GATE + 1)

\* the predicate of prevObjects.find
SameObject(obj, pred) ==
    /\ obj.class = pred.class
    /\ AbsLess(Sub(CenterX(obj.bbox), CenterX(pred.bbox)), GATE)
    /\ AbsLess(Sub(CenterY(obj.bbox), CenterY(pred.bbox)), GATE)

\* a search that prefers the object with the lowest random id
FindExistingLowestId(prevObjects, pred) ==
    LET hits == {i \in 1..Len(prevObjects) : SameObject(prevObjects[i], pred)}
    IN  IF hits = {} THEN 0
        ELSE CHOOSE i \in hits :
                \A j \in hits :
                   \/ prevObjects[i].id[2] < prevObjects[j].id[2]
                   \/ prevObjects[i].id[2] = prevObjects[j].id[2] /\ i <= j

\* prevObjects.find(...): the index of the first object that passes, 0 for
\* undefined
FindExisting(prevObjects, pred) ==
    LET hits == {i \in 1..Len(prevObjects) : SameObject(prevObjects[i], pred)}
    IN  IF hits = {} THEN 0
        ELSE CHOOSE i \in hits : \A j \in hits : i <= j

\* a push that never evicts
PushPositionNoShift(positions, sample) == Append(positions, sample)

\* a push that evicts the newest sample
PushPositionDropsNewest(positions, sample) ==
    LET pushed == Append(positions, sample)
    IN  IF Len(pushed) > POSITION_HISTORY THEN SubSeq(pushed, 1, POSITION_HISTORY)
        ELSE pushed

\* positions.push(sample); if (positions.length > POSITION_HISTORY) shift()
PushPosition(positions, sample) ==
    LET pushed == Append(positions, sample)
    IN  IF Len(pushed) > POSITION_HISTORY THEN Tail(pushed) ELSE pushed

\* `${pred.class}-${Math.random()}`
NewId(class, rnd) == <<class, rnd>>

\* a record that keeps the lastUpdate of the object it continues
UpdatedObjectKeepsLastUpdate(prevObjects, pred, currentTime, rnd) ==
    LET existing == FindExisting(prevObjects, pred)
        positions ==
            PushPosition(IF existing = 0 THEN <<>> ELSE prevObjects[existing].positions,
                         [x |-> CenterX(pred.bbox), y |-> CenterY(pred.bbox),
                          timestamp |-> currentTime])
    IN  [id |-> IF existing = 0 THEN NewId(pred.class, rnd)
                ELSE prevObjects[existing].id,
         class |-> pred.class,
         positions |-> positions,
         speed |-> CalculateSpeed(positions),
         action |-> DetermineAction(positions, CalculateSpeed(positions) * 1000),
         bbox |-> pred.bbox,
         score |-> pred.score,
         lastUpdate |-> IF existing = 0 THEN currentTime
                        ELSE prevObjects[existing].lastUpdate]

\* the body of predictions.map: the record of one detection
UpdatedObject(prevObjects, pred, currentTime, rnd) ==
    LET existing == FindExisting(prevObjects, pred)
        positions ==
            PushPosition(IF existing = 0 THEN <<>> ELSE prevObjects[existing].positions,
                         [x |-> CenterX(pred.bbox), y |-> CenterY(pred.bbox),
                          timestamp |-> currentTime])
    IN  [id |-> IF existing = 0 THEN NewId(pred.class, rnd)
                ELSE prevObjects[existing].id,
         class |-> pred.class,
         positions |-> positions,
         speed |-> CalculateSpeed(positions),
         action |-> DetermineAction(positions, CalculateSpeed(positions) * 1000),
         bbox |-> pred.bbox,
         score |-> pred.score,
         lastUpdate |-> currentTime]

\* updatedObjects.filter(obj => currentTime - obj.lastUpdate < OBJECT_TIMEOUT)
RemoveStale(objects, currentTime) ==
    SelectSeq(objects, LAMBDA obj : currentTime - obj.lastUpdate < OBJECT_TIMEOUT)

\* an updater that carries the unmatched previous objects over and filters
\* nothing
UpdaterKeepsUnmatched(prevObjects, preds, currentTime, rnds) ==
    [i \in 1..Len(preds) |->
        UpdatedObject(prevObjects, preds[i], currentTime, rnds[i])]
    \o SelectSeq(prevObjects,
                 LAMBDA obj : \A i \in 1..Len(preds) :
                                 \/ FindExisting(prevObjects, preds[i]) = 0
                                 \/ prevObjects[FindExisting(prevObjects, preds[i])] # obj)

\* an updater that makes no record of a detection whose box is malformed
UpdaterSkipsMalformed(prevObjects, preds, currentTime, rnds) ==
    SelectSeq(RemoveStale([i \in 1..Len(preds) |->
                              UpdatedObject(prevObjects, preds[i], currentTime, rnds[i])],
                          currentTime),
              LAMBDA obj : \A k \in 1..4 : obj.bbox[k] # NaN)

\* the updater: prevObjects => the next trackedObjects; rnds[i] is what
\* Math.random() returns for detection i
Updater(prevObjects, preds, currentTime, rnds) ==
    RemoveStale([i \in 1..Len(preds) |->
                    UpdatedObject(prevObjects, preds[i], currentTime, rnds[i])],
                currentTime)

(* ------------------------------------------------------------------ *)
(* State                                                                *)
(* ------------------------------------------------------------------ *)
VARIABLES
    modelState,         \* "loading", "ready" (model set) or "failed" (model null)
    isRunning,          \* useState isRunning
    srcObject,          \* videoRef.current.srcObject holds a stream
    readyState,         \* videoRef.current.readyState
    detectionInterval,  \* detectionInterval.current: a timer handle, 0 for undefined
    timers,             \* the interval timers that are active
    timersCreated,      \* the handles window.setInterval has given out
    setupsPending,      \* setupVideo calls awaiting getUserMedia
    metadataWaiter,     \* a setupVideo call awaits the installed onloadedmetadata
    pending,            \* the model.detect calls in flight: their start times
    now,                \* Date.now()
    trackedObjects,     \* useState trackedObjects: the published track set
    predictions,        \* the detector result of the last completed cycle
    currentTime,        \* the cycle time of the last completed cycle
    cycles,             \* the track-set updates published by cycles so far
    errors,             \* the 'Detection error' lines logged so far
    seenIds,            \* every id of every track set published so far
    samples,            \* a positions array handed to the two functions
    speedArg,           \* the speed handed to determineAction, in 1/1000 km/h
    speedResult,        \* what calculateSpeed(samples) returned
    actionResult,       \* what determineAction(samples, speedArg) returned
    replayObjects       \* the track set of a second run fed the same stream

vars == <<modelState, isRunning, srcObject, readyState, detectionInterval, timers,
          timersCreated, setupsPending, metadataWaiter, pending, now,
          trackedObjects, predictions, currentTime, cycles, errors, seenIds,
          samples, speedArg, speedResult, actionResult, replayObjects>>

camera == <<isRunning, srcObject, readyState, setupsPending, metadataWaiter>>
timer == <<detectionInterval, timers, timersCreated>>
cycle == <<trackedObjects, predictions, currentTime, cycles, errors, seenIds>>
calls == <<samples, speedArg, speedResult, actionResult>>
offline == <<calls, replayObjects>>
component == <<modelState, camera, timer, pending>>

\* the first sample of every history handed to the functions
Origin == [x |-> 0, y |-> 0, timestamp |-> 0]

Init ==
    /\ modelState = "loading"
    /\ isRunning = FALSE
    /\ srcObject = FALSE
    /\ readyState = 0
    /\ detectionInterval = 0
    /\ timers = {}
    /\ timersCreated = 0
    /\ setupsPending = 0
    /\ metadataWaiter = FALSE
    /\ pending = {}
    /\ now = 0
    /\ trackedObjects = <<>>
    /\ predictions = <<>>
    /\ currentTime = 0
    /\ cycles = 0
    /\ errors = 0
    /\ seenIds = {}
    /\ samples = <<Origin>>
    /\ speedArg = 0
    /\ speedResult = CalculateSpeed(samples)
    /\ actionResult = DetermineAction(samples, speedArg)
    /\ replayObjects = <<>>

(* ------------------------------------------------------------------ *)
(* Inputs                                                               *)
(* ------------------------------------------------------------------ *)
\* bounding boxes [x, y, width, height], with the centers (100,100),
\* (130,120), (150,100), (100,150) and (200,100); the last box has no x
BoxA == <<90, 90, 20, 20>>
BoxB == <<120, 110, 20, 20>>
BoxC == <<140, 90, 20, 20>>
BoxE == <<90, 140, 20, 20>>
BoxD == <<190, 90, 20, 20>>
BoxNaN == <<NaN, 90, 20, 20>>

Det(class, bbox) == [class |-> class, bbox |-> bbox, score |-> 90]

\* the detector results of Spec: nothing, one object, two objects that
\* crowd together, two of different classes, one malformed
Results ==
    {<<>>,
     <<Det("person", BoxA)>>, <<Det("person", BoxB)>>, <<Det("person", BoxC)>>,
     <<Det("person", BoxE)>>, <<Det("person", BoxD)>>,
     <<Det("person", BoxA), Det("person", BoxB)>>,
     <<Det("person", BoxA), Det("car", BoxA)>>,
     <<Det("person", BoxNaN), Det("person", BoxA)>>}

\* the detector results of SpecLong: nothing, or one object in place
ResultsLong == {<<>>, <<Det("person", BoxA)>>}

Randoms == 0..MaxRandom

\* the time from one timer callback to the next in Spec: the interval
TickGaps == {DETECTION_INTERVAL}

\* and in SpecLong, where the page is in the background and its timers are
\* throttled to one callback a second
TickGapsLong == {OBJECT_TIMEOUT}

\* the clock stops advancing here
MaxTime == MaxTicks * DETECTION_INTERVAL

MaxTimeLong == MaxTicksLong * OBJECT_TIMEOUT

(* ------------------------------------------------------------------ *)
(* The model load (useEffect, initTensorFlow)                           *)
(* ------------------------------------------------------------------ *)
ModelLoaded ==
    /\ modelState = "loading"
    /\ modelState' = "ready"
    /\ UNCHANGED <<offline, camera, timer, pending, now, cycle>>

ModelLoadFailed ==
    /\ modelState = "loading"
    /\ modelState' = "failed"
    /\ UNCHANGED <<offline, camera, timer, pending, now, cycle>>

(* ------------------------------------------------------------------ *)
(* startDetection and the camera                                        *)
(* ------------------------------------------------------------------ *)
\* startDetection creates a timer
\* a start that does not look at the handle
StartsTimerAnyHandle == modelState = "ready"

StartsTimer == modelState = "ready" /\ detectionInterval = 0

\* if (!model || detectionInterval.current) return;
\* detectionInterval.current = window.setInterval(...)
StartDetection ==
    IF StartsTimer
    THEN /\ timersCreated' = timersCreated + 1
         /\ detectionInterval' = timersCreated + 1
         /\ timers' = timers \cup {timersCreated + 1}
    ELSE UNCHANGED timer

\* a click on Start Detection (shown while not running, disabled while the
\* model loads): setupVideo runs up to its await of getUserMedia
SetupVideo ==
    /\ ~isRunning
    /\ modelState # "loading"
    /\ setupsPending < MaxSetups
    /\ setupsPending' = setupsPending + 1
    /\ UNCHANGED <<offline, modelState, isRunning, srcObject, readyState, metadataWaiter,
                   timer, pending, now, cycle>>

\* getUserMedia resolves: srcObject = stream, onloadedmetadata installed
\* (replacing the handler of any earlier call)
MediaGranted ==
    /\ setupsPending > 0
    /\ setupsPending' = setupsPending - 1
    /\ srcObject' = TRUE
    /\ readyState' = 0
    /\ metadataWaiter' = TRUE
    /\ UNCHANGED <<offline, modelState, isRunning, timer, pending, now, cycle>>

\* getUserMedia rejects: the catch reports the error
MediaDenied ==
    /\ setupsPending > 0
    /\ setupsPending' = setupsPending - 1
    /\ UNCHANGED <<offline, modelState, isRunning, srcObject, readyState, metadataWaiter,
                   timer, pending, now, cycle>>

\* loadedmetadata fires: play(), setIsRunning(true), startDetection()
MetadataLoaded ==
    /\ metadataWaiter
    /\ srcObject
    /\ StartsTimer => timersCreated < MaxTimers
    /\ metadataWaiter' = FALSE
    /\ isRunning' = TRUE
    /\ StartDetection
    /\ UNCHANGED <<offline, modelState, srcObject, readyState, setupsPending, pending,
                   now, cycle>>

\* the video element has enough data
VideoReady ==
    /\ srcObject
    /\ ~metadataWaiter
    /\ readyState # 4
    /\ readyState' = 4
    /\ UNCHANGED <<offline, modelState, isRunning, srcObject, setupsPending, metadataWaiter,
                   timer, pending, now, cycle>>

\* a click on Stop Detection (shown while running): stopCamera
StopCamera ==
    /\ isRunning
    /\ srcObject' = FALSE
    /\ readyState' = 0
    /\ timers' = timers \ {detectionInterval}
    /\ detectionInterval' = 0
    /\ isRunning' = FALSE
    /\ trackedObjects' = <<>>
    /\ UNCHANGED <<offline, modelState, setupsPending, metadataWaiter, timersCreated, pending,
                   now, predictions, currentTime, cycles, errors, seenIds>>

(* ------------------------------------------------------------------ *)
(* The interval callback                                                *)
(* ------------------------------------------------------------------ *)
\* a timer fires and the video is not ready: return
TickNotReady(gaps, maxTime) ==
    /\ timers # {}
    /\ readyState # 4
    /\ \E gap \in gaps :
          /\ now + gap <= maxTime
          /\ now' = now + gap
    /\ UNCHANGED <<offline, modelState, camera, timer, pending, cycle>>

\* a timer fires and the callback runs up to its await of model.detect
TickDetect(gaps, maxTime, maxInFlight) ==
    /\ timers # {}
    /\ readyState = 4
    /\ Cardinality(pending) < maxInFlight
    /\ \E gap \in gaps :
          /\ now + gap <= maxTime
          /\ now' = now + gap
    /\ pending' = pending \cup {now'}
    /\ UNCHANGED <<offline, modelState, camera, timer, cycle>>

\* a cycle time read before the await
CycleTimeAtStart(startedAt, t) == startedAt

\* const currentTime = Date.now(), after the await: the cycle time of the
\* call started at startedAt that completes at time t
CycleTime(startedAt, t) == t

\* model.detect resolves: currentTime = Date.now(), setTrackedObjects(updater)
DetectResolves(results) ==
    \E call \in pending, preds \in results :
        /\ pending' = pending \ {call}
        /\ \E rnds \in [1..Len(preds) -> Randoms] :
              \* Math.random() is called for the unmatched detections only
              /\ \A i \in 1..Len(preds) :
                    FindExisting(trackedObjects, preds[i]) # 0 => rnds[i] = 0
              /\ predictions' = preds
              /\ currentTime' = CycleTime(call, now)
              /\ trackedObjects' = Updater(trackedObjects, preds, currentTime', rnds)
              /\ cycles' = cycles + 1
              /\ seenIds' = seenIds \cup
                            {trackedObjects'[i].id : i \in 1..Len(trackedObjects')}
        /\ UNCHANGED <<offline, modelState, camera, timer, now, errors>>

\* a catch that also clears the track set
DetectRejectsClears ==
    \E call \in pending :
        /\ pending' = pending \ {call}
        /\ errors' = errors + 1
        /\ trackedObjects' = <<>>
        /\ UNCHANGED <<offline, modelState, camera, timer, now, predictions, currentTime,
                       cycles, seenIds>>

\* model.detect rejects: the catch logs the error
DetectRejects ==
    \E call \in pending :
        /\ pending' = pending \ {call}
        /\ errors' = errors + 1
        /\ UNCHANGED <<offline, modelState, camera, timer, now, trackedObjects, predictions,
                       currentTime, cycles, seenIds>>

(* ------------------------------------------------------------------ *)
(* Specifications                                                       *)
(* ------------------------------------------------------------------ *)
Next ==
    \/ ModelLoaded
    \/ ModelLoadFailed
    \/ SetupVideo
    \/ MediaGranted
    \/ MediaDenied
    \/ MetadataLoaded
    \/ VideoReady
    \/ StopCamera
    \/ TickNotReady(TickGaps, MaxTime)
    \/ TickDetect(TickGaps, MaxTime, MaxInFlight)
    \/ DetectResolves(Results)
    \/ DetectRejects

Spec == Init /\ [][Next]_vars

\* long runs: the camera is started once and not stopped, the detector
\* answers every call before the next timer callback and reports nothing or
\* one object that stays in place; the page is throttled
NextLong ==
    \/ ModelLoaded
    \/ SetupVideo /\ ~srcObject
    \/ MediaGranted
    \/ MetadataLoaded
    \/ VideoReady
    \/ TickNotReady(TickGapsLong, MaxTimeLong)
    \/ TickDetect(TickGapsLong, MaxTimeLong, 1)
    \/ DetectResolves(ResultsLong)

SpecLong == Init /\ [][NextLong]_vars

(* ------------------------------------------------------------------ *)
(* The two functions of speedCalculation.ts, called directly            *)
(* ------------------------------------------------------------------ *)
Step(dx, dy, dt) == [dx |-> dx, dy |-> dy, dt |-> dt]

\* from one sample to the next: 3 px and 10 px in a frame (4.9 and
\* 16.4 km/h), 18.2 px in a frame (29.9 km/h), 2 px in a frame, 100 px in a
\* second (5.4 km/h), 1000 px in 100 ms (540 km/h), a duplicate timestamp
\* and a timestamp out of order
Steps ==
    {Step(3, 0, 33), Step(0, 10, 33), Step(18, 3, 33), Step(2, 0, 33),
     Step(100, 0, 1000), Step(1000, 0, 100), Step(10, 4, 0), Step(10, 3, -33)}

\* the speeds handed to determineAction, in 1/1000 km/h: on both sides of
\* every row of its table
SpeedArgs == {500, 999, 1000, 2999, 3000, 7999, 8000, 10000, 14999, 15000, 20000}

NextSample(step) ==
    [x |-> samples[Len(samples)].x + step.dx,
     y |-> samples[Len(samples)].y + step.dy,
     timestamp |-> samples[Len(samples)].timestamp + step.dt]

\* positions.push(sample), speed = calculateSpeed(positions),
\* action = determineAction(positions, speed)
TrackSample ==
    /\ Len(samples) < MaxSamples
    /\ \E step \in Steps :
          /\ samples' = PushPosition(samples, NextSample(step))
          /\ speedResult' = CalculateSpeed(samples')
          /\ speedArg' = speedResult' * 1000
          /\ actionResult' = DetermineAction(samples', speedArg')
    /\ UNCHANGED <<component, now, cycle, replayObjects>>

\* determineAction(samples, speed) for a speed of the caller's choice
DetermineActionCall ==
    /\ \E speed \in SpeedArgs :
          /\ speedArg' = speed
          /\ actionResult' = DetermineAction(samples, speed)
    /\ UNCHANGED <<component, now, cycle, replayObjects, samples, speedResult>>

NextFunctions == TrackSample \/ DetermineActionCall

SpecFunctions == Init /\ [][NextFunctions]_vars

(* ------------------------------------------------------------------ *)
(* Properties                                                           *)
(* ------------------------------------------------------------------ *)
\* a step in which a cycle publishes a track-set update
Published == cycles' = cycles + 1

Ids(objects) == {objects[i].id : i \in 1..Len(objects)}

LastSample(obj) == obj.positions[Len(obj.positions)]

\* |a - b| < 50, false when either is NaN
Near(a, b) == a # NaN /\ b # NaN /\ a - b < 50 /\ b - a < 50

\* the previous tracks of the detection's class whose last center is within
\* 50 px of the detection's center on each axis
Candidates(objects, det) ==
    {k \in 1..Len(objects) :
        /\ objects[k].class = det.class
        /\ Near(LastSample(objects[k]).x, CenterX(det.bbox))
        /\ Near(LastSample(objects[k]).y, CenterY(det.bbox))}

First(S) == CHOOSE k \in S : \A j \in S : k <= j

Malformed(bbox) == \E k \in 1..4 : bbox[k] = NaN

\* C1: every track of the published set has a history of at least 1 and at
\* most POSITION_HISTORY = 15 samples
C1_HistoryBounded ==
    \A i \in 1..Len(trackedObjects) :
        /\ Len(trackedObjects[i].positions) >= 1
        /\ Len(trackedObjects[i].positions) <= 15

\* a full history after more than 15 cycles
C1_Witness ==
    /\ cycles > 15
    /\ \E i \in 1..Len(trackedObjects) :
          /\ Len(trackedObjects[i].positions) = 15
          /\ trackedObjects[i].positions[1].timestamp > OBJECT_TIMEOUT

\* C2: a previous track that no detection of the cycle matches is absent from
\* the set the cycle publishes, and an id that an earlier set held appears
\* in the new set only as the continuation of a previous track
C2_NeverResurrected ==
    [][Published =>
        /\ \A k \in 1..Len(trackedObjects) :
              (\A i \in 1..Len(predictions') :
                  \/ Candidates(trackedObjects, predictions'[i]) = {}
                  \/ First(Candidates(trackedObjects, predictions'[i])) # k)
              => trackedObjects[k].id \notin Ids(trackedObjects')
        /\ \A i \in 1..Len(trackedObjects') :
              trackedObjects'[i].id \in seenIds
              => /\ Len(trackedObjects'[i].positions) > 1
                 /\ trackedObjects'[i].id \in Ids(trackedObjects)]_vars

\* C3: at most one detector call is in flight
C3_NoOverlap == Cardinality(pending) <= 1

\* C4: while no timer is set (before the first start, and from stopCamera to
\* the next start) the track set is empty
C4_StoppedStaysEmpty == detectionInterval = 0 => trackedObjects = <<>>

\* C5: a cycle whose detector call fails publishes nothing, leaves the track
\* set as it was and leaves the timer active
C5_FailureKeepsSnapshot ==
    [][errors' = errors + 1 =>
        /\ cycles' = cycles
        /\ trackedObjects' = trackedObjects
        /\ timers' = timers
        /\ timers # {} => detectionInterval' \in timers']_vars

\* a failure was logged, the timer is active and a cycle has published tracks
\* at the present time
C5_Witness ==
    /\ errors > 0
    /\ timers # {}
    /\ cycles > 0
    /\ currentTime = now
    /\ trackedObjects # <<>>

\* C6: the set a cycle publishes is the set it would publish for the detector
\* result without its malformed detections
C6_MalformedSkipped ==
    [][Published =>
        LET good == SelectSeq(predictions', LAMBDA det : ~Malformed(det.bbox))
        IN  \E rnds \in [1..Len(good) -> Randoms] :
                trackedObjects' = Updater(trackedObjects, good, currentTime', rnds)]_vars

\* C7: of two detections of a cycle within the gate of the same previous
\* track, the first keeps the track's id and the second is a new track with
\* another id and a history of one sample
C7_CrowdedSecondIsNew ==
    [][Published =>
        \A i, j \in 1..Len(predictions') :
            LET ci == Candidates(trackedObjects, predictions'[i])
                cj == Candidates(trackedObjects, predictions'[j])
            IN  (i < j /\ ci # {} /\ cj # {} /\ First(ci) = First(cj))
                => /\ trackedObjects'[i].id = trackedObjects[First(ci)].id
                   /\ trackedObjects'[j].id # trackedObjects'[i].id
                   /\ Len(trackedObjects'[j].positions) = 1]_vars

\* C8: the timestamps of every history are in ascending order
C8_TimestampsAscending ==
    \A i \in 1..Len(trackedObjects) :
        \A j \in 1..(Len(trackedObjects[i].positions) - 1) :
            trackedObjects[i].positions[j].timestamp
                <= trackedObjects[i].positions[j + 1].timestamp

\* a history holds the sample of a call that overtook a call still in flight
C8_Witness ==
    \E i \in 1..Len(trackedObjects) :
        \E startedAt \in pending :
            startedAt < LastSample(trackedObjects[i]).timestamp

\* C9: no track of the set a cycle published has been idle for OBJECT_TIMEOUT
\* = 1000 ms or more at the cycle time
C9_NoStaleTrack ==
    \A i \in 1..Len(trackedObjects) :
        currentTime - trackedObjects[i].lastUpdate < 1000

\* a track matched by a cycle that came 1000 ms or more after the track's
\* last update
C9_Witness ==
    \E i \in 1..Len(trackedObjects) :
        LET positions == trackedObjects[i].positions
        IN  /\ Len(positions) >= 2
            /\ currentTime - positions[Len(positions) - 1].timestamp >= 1000
            /\ trackedObjects[i].lastUpdate = currentTime

ResultsReplay ==
    {<<>>, <<Det("person", BoxA)>>, <<Det("person", BoxB)>>,
     <<Det("person", BoxA), Det("person", BoxB)>>}

\* the time from one cycle of the stream to the next: a frame or a second
CycleGaps == {DETECTION_INTERVAL, OBJECT_TIMEOUT}

\* what Math.random() may return in the detections of preds: 0 where it is
\* not called
RandomDraws(prevObjects, preds) ==
    {rnds \in [1..Len(preds) -> Randoms] :
        \A i \in 1..Len(preds) : FindExisting(prevObjects, preds[i]) # 0 => rnds[i] = 0}

\* one cycle of the stream, taken by both runs: the same detections and the
\* same cycle time, each run with its own Math.random()
ReplayCycle ==
    /\ cycles < MaxTicks
    /\ \E preds \in ResultsReplay, gap \in CycleGaps :
          /\ now' = now + gap
          /\ currentTime' = now'
          /\ predictions' = preds
          /\ \E rnds \in RandomDraws(trackedObjects, preds) :
                trackedObjects' = Updater(trackedObjects, preds, currentTime', rnds)
          /\ \E rnds \in RandomDraws(replayObjects, preds) :
                replayObjects' = Updater(replayObjects, preds, currentTime', rnds)
    /\ cycles' = cycles + 1
    /\ UNCHANGED <<component, calls, errors, seenIds>>

NextReplay == ReplayCycle

SpecReplay == Init /\ [][NextReplay]_vars

(* ------------------------------------------------------------------ *)
(* Properties of calculateSpeed and determineAction                     *)
(* ------------------------------------------------------------------ *)
\* the pairs of consecutive samples, by the index of the earlier one
Pairs == 1..(Len(samples) - 1)

\* the elapsed time of pair i, in ms
Elapsed(i) == samples[i + 1].timestamp - samples[i].timestamp

\* C11: calculateSpeed returns 0 for a history of fewer than 2 samples and
\* for a history all of whose consecutive pairs have zero or negative
\* elapsed time; it never returns a negative speed, which a pair with
\* negative elapsed time would contribute.
C11_NoElapsedTimeNoSpeed ==
    /\ Len(samples) < 2 => speedResult = 0
    /\ (\A i \in Pairs : Elapsed(i) <= 0) => speedResult = 0
    /\ speedResult >= 0

\* a history of three samples or more, with a duplicate timestamp and a
\* timestamp out of order and no pair in order
C11_Witness ==
    /\ Len(samples) >= 3
    /\ \A i \in Pairs : Elapsed(i) <= 0
    /\ \E i \in Pairs : Elapsed(i) = 0
    /\ \E i \in Pairs : Elapsed(i) < 0
    /\ speedResult = 0

\* the squared pixel distance of pair i
Dist2(i) ==
    (samples[i + 1].x - samples[i].x) * (samples[i + 1].x - samples[i].x)
    + (samples[i + 1].y - samples[i].y) * (samples[i + 1].y - samples[i].y)

\* pair i moves 2 px or less
TooShort(i) == Dist2(i) <= 4

\* the instantaneous speed of pair i, 54 * distance / elapsed km/h, is 30 or
\* more: 9 * distance >= 5 * elapsed, squared
TooFast(i) == Elapsed(i) > 0 /\ 81 * Dist2(i) >= 25 * Elapsed(i) * Elapsed(i)

\* pair i enters the average
Eligible(i) == Elapsed(i) > 0 /\ ~TooShort(i) /\ ~TooFast(i)

\* C12: calculateSpeed leaves out every pair whose instantaneous speed is
\* 30 km/h or more and every pair that moves 2 px or less: a history with
\* no other pair has speed 0, and the speed is always an integer from 0 to
\* 30.
C12_OutliersExcluded ==
    /\ speedResult \in 0..MAX_SPEED_THRESHOLD
    /\ (\A i \in Pairs : ~Eligible(i)) => speedResult = 0

\* a history with a pair of 1000 px in 100 ms, a pair of 2 px and a pair
\* that enters the average, whose speed is 30
C12_Witness ==
    /\ \E i \in Pairs : Dist2(i) = 1000000 /\ Elapsed(i) = 100
    /\ \E i \in Pairs : TooShort(i) /\ Elapsed(i) > 0
    /\ \E i \in Pairs : Eligible(i)
    /\ speedResult = MAX_SPEED_THRESHOLD

\* the pairs that enter the average
Surviving == {i \in Pairs : Eligible(i)}

\* the last min(3, k) of the k surviving pairs, in history order
Window == {i \in Surviving : Cardinality({j \in Surviving : j > i}) < 3}

\* the instantaneous speed of pair i in 1/1000 km/h
InstantSpeed(i) == SpeedMilli(Dist2(i), Elapsed(i))

RECURSIVE TotalSpeed(_)
TotalSpeed(S) ==
    IF S = {} THEN 0
    ELSE LET i == CHOOSE i \in S : TRUE
         IN  InstantSpeed(i) + TotalSpeed(S \ {i})

\* r is the mean of the speeds of the pairs S, rounded to the nearest integer
\* with halves up: r - 1/2 <= mean < r + 1/2
IsRoundedMean(r, S) ==
    /\ (2 * r - 1) * 1000 * Cardinality(S) <= 2 * TotalSpeed(S)
    /\ 2 * TotalSpeed(S) < (2 * r + 1) * 1000 * Cardinality(S)

\* C13: for a history with at least one surviving pair calculateSpeed is the
\* rounded mean of the last min(3, k) of the k surviving instantaneous
\* speeds, the speed of a pair being 54 * distancePx / elapsedMs; two samples
\* 100 px apart horizontally and 1000 ms apart give 5.
C13_RoundedMeanOfLastThree ==
    /\ Surviving # {} => IsRoundedMean(speedResult, Window)
    /\ (Len(samples) = 2 /\ samples[2].x - samples[1].x = 100
           /\ samples[2].y = samples[1].y /\ Elapsed(1) = 1000)
         => speedResult = 5
    /\ \A i \in Surviving :
          Dist2(i) = 10000 => InstantSpeed(i) * Elapsed(i) = 54 * 100 * 1000

\* a history of four surviving pairs, the oldest of which is outside the
\* window and has another speed than the newest
C13_Witness ==
    /\ Cardinality(Surviving) = 4
    /\ \E i \in Surviving \ Window, j \in Window : InstantSpeed(i) # InstantSpeed(j)
    /\ IsRoundedMean(speedResult, Window)
    /\ ~IsRoundedMean(speedResult, Surviving)

\* the pairs among the last 3 samples
RecentPairs == {i \in Pairs : i >= Len(samples) - 2}

Abs(a) == IF a < 0 THEN 0 - a ELSE a

\* the sum of the absolute y deltas, and of the absolute x deltas, over the
\* pairs S
RECURSIVE Vertical(_)
Vertical(S) ==
    IF S = {} THEN 0
    ELSE LET i == CHOOSE i \in S : TRUE
         IN  Abs(samples[i + 1].y - samples[i].y) + Vertical(S \ {i})

RECURSIVE Horizontal(_)
Horizontal(S) ==
    IF S = {} THEN 0
    ELSE LET i == CHOOSE i \in S : TRUE
         IN  Abs(samples[i + 1].x - samples[i].x) + Horizontal(S \ {i})

Labels ==
    {"stationary", "sitting", "standing", "walking slowly", "walking",
     "walking fast", "running"}

\* C14: for a history of at least 2 samples determineAction follows the
\* decision table, first match first, over the speed and the vertical and
\* horizontal movement of the last 3 samples; its result is one of the
\* seven labels.
C14_DecisionTable ==
    /\ actionResult \in Labels
    /\ Len(samples) >= 2 =>
          LET v == Vertical(RecentPairs)
              h == Horizontal(RecentPairs)
          IN  actionResult =
                CASE speedArg < 1000 /\ v < 4 -> "sitting"
                  [] speedArg < 1000 /\ v >= 4 -> "standing"
                  [] speedArg >= 1000 /\ speedArg < 3000 /\ v > h -> "standing"
                  [] speedArg >= 1000 /\ speedArg < 3000 /\ v <= h -> "walking slowly"
                  [] speedArg >= 3000 /\ speedArg < 8000 -> "walking"
                  [] speedArg >= 8000 /\ speedArg < 15000 -> "walking fast"
                  [] speedArg >= 15000 -> "running"

\* a history of four samples or more that moved 4 px or more vertically,
\* but not over its last 3 samples, handed over with the speed 0.5
C14_Witness ==
    /\ Len(samples) >= 4
    /\ Vertical(Pairs) >= 4
    /\ Vertical(RecentPairs) < 4
    /\ speedArg = 500
    /\ actionResult = "sitting"

(* ------------------------------------------------------------------ *)
(* Properties of the replayed stream                                    *)
(* ------------------------------------------------------------------ *)
\* C15: two runs from the empty track set over the same detection lists and
\* cycle times publish, cycle by cycle and record by record, the same
\* class, history, speed and action.
C15_ReplayAgrees ==
    /\ Len(trackedObjects) = Len(replayObjects)
    /\ \A i \in 1..Len(trackedObjects) :
          /\ trackedObjects[i].class = replayObjects[i].class
          /\ trackedObjects[i].positions = replayObjects[i].positions
          /\ trackedObjects[i].speed = replayObjects[i].speed
          /\ trackedObjects[i].action = replayObjects[i].action

\* after two cycles the runs hold a moving track under different ids
C15_Witness ==
    /\ cycles >= 2
    /\ \E i \in 1..Len(trackedObjects) :
          /\ trackedObjects[i].id # replayObjects[i].id
          /\ Len(trackedObjects[i].positions) >= 2
          /\ trackedObjects[i].speed > 0
          /\ trackedObjects[i].action = "walking slowly"

(* ------------------------------------------------------------------ *)
(* Properties of the published records and of the timer                 *)
(* ------------------------------------------------------------------ *)
\* C16: every completed cycle publishes one record per detection in the
\* detector's order, record i with the class, box and score of detection i;
\* the staleness filter removes none, and no detections give the empty set.
C16_OneRecordPerDetection ==
    [][Published =>
          /\ Len(trackedObjects') = Len(predictions')
          /\ \A i \in 1..Len(predictions') :
                /\ trackedObjects'[i].class = predictions'[i].class
                /\ trackedObjects'[i].bbox = predictions'[i].bbox
                /\ trackedObjects'[i].score = predictions'[i].score
          /\ predictions' = <<>> => trackedObjects' = <<>>]_vars

\* a published set of two records for two detections, one of them malformed
C16_Witness ==
    /\ cycles > 0
    /\ currentTime = now
    /\ Len(predictions) = 2
    /\ Len(trackedObjects) = 2
    /\ Malformed(predictions[1].bbox)
    /\ trackedObjects[1].bbox = predictions[1].bbox
    /\ trackedObjects[2].bbox = predictions[2].bbox

\* the sample a cycle at time t pushes for the detection det
SampleOf(det, t) ==
    [x |-> CenterX(det.bbox), y |-> CenterY(det.bbox), timestamp |-> t]

\* C17: the record of a detection that matches a previous track keeps the
\* track's id, and its history is the track's history followed by the new
\* sample, without its oldest sample exactly when it already held 15.
C17_MatchedHistoryFifo ==
    [][Published =>
          \A i \in 1..Len(predictions') :
             LET cand == Candidates(trackedObjects, predictions'[i])
                 old == trackedObjects[First(cand)]
                 kept == IF Len(old.positions) = 15 THEN Tail(old.positions)
                         ELSE old.positions
             IN  cand # {} =>
                    /\ trackedObjects'[i].id = old.id
                    /\ trackedObjects'[i].positions
                         = kept \o <<SampleOf(predictions'[i], currentTime')>>]_vars

\* after 18 cycles, a track of 15 samples one second apart that ends with
\* the sample of the last cycle
C17_Witness ==
    \E i \in 1..Len(trackedObjects) :
       LET positions == trackedObjects[i].positions
       IN  /\ Len(positions) = 15
           /\ \A k \in 1..14 :
                 positions[k + 1].timestamp - positions[k].timestamp = OBJECT_TIMEOUT
           /\ positions[15].timestamp = currentTime
           /\ cycles >= 18

\* C18: in every published set each record's lastUpdate is the timestamp of
\* the last sample of its history and the cycle time of the publishing
\* cycle, and the last sample's (x, y) is the center of the record's box.
C18_LastSampleIsThisCycle ==
    \A i \in 1..Len(trackedObjects) :
       LET obj == trackedObjects[i]
           last == LastSample(obj)
       IN  /\ obj.lastUpdate = last.timestamp
           /\ obj.lastUpdate = currentTime
           /\ IF Malformed(obj.bbox) THEN last.x = NaN \/ last.y = NaN
              ELSE /\ 2 * last.x = 2 * obj.bbox[1] + obj.bbox[3]
                   /\ 2 * last.y = 2 * obj.bbox[2] + obj.bbox[4]

\* a track matched in a second cycle at another place than in its first
C18_Witness ==
    \E i \in 1..Len(trackedObjects) :
       LET positions == trackedObjects[i].positions
       IN  /\ Len(positions) = 2
           /\ positions[1].timestamp < positions[2].timestamp
           /\ positions[1].x # positions[2].x
           /\ trackedObjects[i].lastUpdate = positions[2].timestamp

\* C19: in every published set a record is 'stationary' exactly when its
\* history has one sample, which is exactly when its detection matched no
\* previous track; a 'stationary' record has speed 0.
C19_StationaryIffNew ==
    [][Published =>
          \A i \in 1..Len(predictions') :
             LET new == trackedObjects'[i]
                 matched == Candidates(trackedObjects, predictions'[i]) # {}
             IN  /\ new.action = "stationary" <=> Len(new.positions) = 1
                 /\ Len(new.positions) = 1 <=> ~matched
                 /\ new.action = "stationary" => new.speed = 0]_vars

\* a published set with a new, 'stationary' record next to the record of a
\* track in its second cycle
C19_Witness ==
    \E i, j \in 1..Len(trackedObjects) :
       /\ trackedObjects[i].action = "stationary"
       /\ Len(trackedObjects[i].positions) = 1
       /\ trackedObjects[i].speed = 0
       /\ Len(trackedObjects[j].positions) = 2
       /\ trackedObjects[j].action # "stationary"

\* C20: at most one interval timer is active at any time; the active timer
\* is the one whose handle detectionInterval.current holds, so no timer is
\* active when the handle is unset, as after stopCamera.
C20_AtMostOneTimer ==
    /\ Cardinality(timers) <= 1
    /\ detectionInterval = 0 => timers = {}
    /\ detectionInterval # 0 => timers = {detectionInterval}

\* detection runs on the second timer, started after a stop
C20_Witness ==
    /\ timersCreated = 2
    /\ isRunning
    /\ timers = {2}
    /\ detectionInterval = 2
====
